---- MODULE Spec2Model ----
(***************************************************************************)
(* Certificate issuance, revocation and public verification of the         *)
(* medical-events platform: the Express handlers of the certificate routes *)
(* and the storage functions they call, over the certificates table.       *)
(*                                                                         *)
(* Every database statement is one atomic step; a handler that awaits      *)
(* between a read and a later write is split at that await, so that        *)
(* concurrent requests interleave exactly where the code lets them.        *)
(* The columns createdAt/updatedAt, the request's ip and user agent and    *)
(* the joined event/user rows are left out: no modelled branch reads them. *)
(***************************************************************************)
EXTENDS Integers, Sequences, FiniteSets, TLC

\* ---------------------------------------------------------------- bounds
MaxReg      == 1    \* registrations 1..MaxReg exist
MaxUser     == 1    \* authenticated callers 1..MaxUser
MaxTime     == 2    \* Date.now() ranges over 1..MaxTime
MaxInFlight == 2    \* issue requests that can be in flight together
MaxRequests == 5    \* requests served in one behaviour
MaxEvent    == 1    \* events 1..MaxEvent exist

\* ------------------------------------------------------------ value sets
Registrations == 1..MaxReg
\* parseInt(req.params.id): the existing registrations and one absent id
RegIds        == 1..(MaxReg + 1)
Users         == 1..MaxUser
Slots         == 1..MaxInFlight
EventIds      == 1..MaxEvent

\* Nullable columns and optional results: None is SQL NULL / undefined.
None    == <<>>
Some(v) == <<v>>
Val(o)  == o[1]

\* Strings the revoke body can carry, as sequences of characters:
\* "", " " and "d".
Reasons == { <<>>, <<" ">>, <<"d">> }

VARIABLES
    certificates,   \* the certificates table: a set of rows
    nextId,         \* the serial behind certificates.id
    activityLogs,   \* the activity_logs table, in insertion order
    now,            \* the clock read by Date.now() and new Date()
    issue,          \* per slot: the issue handler running in it
    revokeRes,      \* the last response of POST /certificates/:id/revoke
    verifyRes,      \* the last response of GET /certificates/verify/:number
    served,         \* requests accepted so far
    registrations,  \* the event_registrations table: a set of rows
    events,         \* the events table: the ids of its rows
    gen,            \* a call of generateCertificateNumber: clock, draw, result
    refused,        \* status of the last request the middleware turned away
    userPermissions,    \* the user_permissions table: per user, the names granted
    tokens,             \* what the tokens signed by login decode to
    register,           \* per slot: the registration handler running in it
    nextRegistrationId  \* the serial behind event_registrations.id

authVars     == <<userPermissions, tokens>>
registerVars == <<register, nextRegistrationId>>

vars == <<certificates, nextId, activityLogs, now, issue, revokeRes,
          verifyRes, served, registrations, events, gen, refused,
          authVars, registerVars>>

\* ------------------------------------------------ pure parts of the code

\* `CERT-${Date.now()}-${registrationId}`: the hyphens keep the two
\* numbers apart, so the string is the triple.
CertificateNumber(t, registrationId) == <<"CERT", t, registrationId>>

\* `${protocol}://${host}/certificates/verify/${certificateNumber}`
VerificationUrl(certificateNumber) == <<"/certificates/verify/", certificateNumber>>

\* QRCode.toDataURL(url): the image is a function of the url alone.
generateCertificate(url) == <<"qr", url>>

\* if (!reason): the empty string is the falsy one.
ReasonMissing(reason) == reason = <<>>

\* rows matching a where-clause
RowsByRegistration(registrationId) ==
    { c \in certificates : c.registrationId = registrationId }
RowsByNumber(certificateNumber) ==
    { c \in certificates : c.certificateNumber = certificateNumber }
RowsById(id) ==
    { c \in certificates : c.id = id }

\* findFirst without orderBy: any matching row, or undefined.
FindFirst(rows) ==
    IF rows = {} THEN { None } ELSE { Some(c) : c \in rows }

NoIssue ==
    [ pc |-> "idle", user |-> 0, registrationId |-> 0,
      certificateNumber |-> None, qrCode |-> None, existing |-> None,
      certificate |-> None, status |-> 0, prior |-> {} ]

\* No response sent yet.
NoRevokeResponse == [ status |-> 0, certificate |-> None ]
NoVerifyResponse ==
    [ status |-> 0, valid |-> FALSE, revoked |-> FALSE,
      revokedReason |-> None, revokedDate |-> None, certificate |-> None ]

\* The user a registration belongs to and the event it is for
\* (event_registrations.userId, eventId).
RegistrationUserId(registrationId) == 1 + ((registrationId - 1) % MaxUser)
RegistrationEventId(registrationId) == 1 + ((registrationId - 1) % MaxEvent)

\* A row of event_registrations with its defaults: status pending,
\* attendanceConfirmed false.
RegistrationRow(id) ==
    [ id |-> id,
      eventId |-> RegistrationEventId(id),
      userId |-> RegistrationUserId(id),
      status |-> "pending",
      attendanceConfirmed |-> FALSE ]

\* ------------------------------------------- server/utils/certificate.ts

\* Strings are sequences of one-character strings.
Digits == { "0", "1", "2", "3", "4", "5", "6", "7", "8", "9" }
Upper  == { "A", "B", "C", "D", "E", "F", "G", "H", "I", "J", "K", "L", "M",
            "N", "O", "P", "Q", "R", "S", "T", "U", "V", "W", "X", "Y", "Z" }

\* The alphabet handed to customAlphabet.
Alphabet ==
    <<"1", "2", "3", "4", "5", "6", "7", "8", "9", "0",
      "A", "B", "C", "D", "E", "F", "G", "H", "I", "J", "K", "L", "M",
      "N", "O", "P", "Q", "R", "S", "T", "U", "V", "W", "X", "Y", "Z">>

\* Number.prototype.toString of a non-negative integer.
RECURSIVE toString(_)
toString(n) ==
    LET digit(d) == <<"0", "1", "2", "3", "4", "5", "6", "7", "8", "9">>[d + 1] IN
    IF n < 10 THEN <<digit(n)>> ELSE toString(n \div 10) \o <<digit(n % 10)>>

\* s.slice(-k): the last k characters, or all of s when it is shorter.
SliceLast(s, k) ==
    IF Len(s) <= k THEN s ELSE SubSeq(s, Len(s) - k + 1, Len(s))

\* s.padStart(k, ch)
PadStart(s, k, ch) ==
    IF Len(s) >= k THEN s ELSE [ i \in 1..(k - Len(s)) |-> ch ] \o s

\* The size asked of nanoid, and the counts in the regular expression.
NanoidSize  == 6
RegexDigits == 4
RegexSuffix == 6

\* The literal both functions share.
Medevent == <<"M", "E", "D", "E", "V", "E", "N", "T", "-">>

\* generateCertificateNumber without the padStart on the month.
generateCertificateNumber_NoPad(date, id) ==
    LET year  == SliceLast(toString(date.fullYear), 2)
        month == toString(date.month + 1)
    IN  Medevent \o year \o month \o <<"-">> \o id

\* generateCertificateNumber, for the Date the clock gave (getFullYear,
\* getMonth) and the string nanoid(6) drew.
generateCertificateNumber(date, id) ==
    LET year  == SliceLast(toString(date.fullYear), 2)
        month == PadStart(toString(date.month + 1), 2, "0")
    IN  Medevent \o year \o month \o <<"-">> \o id

\* validateCertificateNumber: /^MEDEVENT-\d{4}-[A-Z0-9]{6}$/.test
validateCertificateNumber(certificateNumber) ==
    LET s == certificateNumber
        d == Len(Medevent)
    IN  /\ Len(s) = d + RegexDigits + 1 + RegexSuffix
        /\ SubSeq(s, 1, d) = Medevent
        /\ \A i \in (d + 1)..(d + RegexDigits) : s[i] \in Digits
        /\ s[d + RegexDigits + 1] = "-"
        /\ \A i \in (d + RegexDigits + 2)..Len(s) : s[i] \in Upper \cup Digits

\* The string the issuance handler builds for CertificateNumber(t, id):
\* `CERT-${Date.now()}-${registrationId}`.
CertificateNumberString(certificateNumber) ==
    <<"C", "E", "R", "T", "-">> \o toString(certificateNumber[2])
        \o <<"-">> \o toString(certificateNumber[3])

\* The years and months the clock is read in: getFullYear of a system
\* clock (the epoch's year in either time zone onwards), getMonth 0..11.
Years  == { 1969, 1970, 1999, 2000, 2009, 2010, 2026, 2099, 2100, 10000 }
Months == 0..11

\* What nanoid(6) can return, sampled: every character of the alphabet at
\* every position, among two kinds of filling.
NanoidDraws ==
    { [ i \in 1..NanoidSize |-> IF i = k THEN Alphabet[a] ELSE fill ] :
        k \in 1..NanoidSize, a \in 1..Len(Alphabet), fill \in { "0", "Z" } }

\* No call of the generator.
NoGen == [ date |-> [ fullYear |-> 1970, month |-> 0 ], id |-> <<>>,
           certificateNumber |-> None ]

\* One call of generateCertificateNumber.
Generate ==
    /\ gen.certificateNumber = None
    /\ gen' = [ gen EXCEPT
                  !.certificateNumber = Some(generateCertificateNumber(gen.date, gen.id)) ]
    /\ UNCHANGED <<certificates, nextId, activityLogs, now, issue, revokeRes,
                   verifyRes, served, registrations, events, refused,
                   authVars, registerVars>>

\* ------------------------------------------------------------- tables

\* where id = ...
RegistrationsById(id) == { r \in registrations : r.id = id }

\* The two permissions the certificate routes ask for, and two of the
\* roles of userRoleEnum.
CertificatePermissions == { "certificate:generate", "certificate:revoke" }
Roles == { "super_admin", "hospital_manager" }

\* No registration handler in the slot.
NoRegister ==
    [ pc |-> "idle", userId |-> 0, eventId |-> 0, event |-> None,
      status |-> 0, message |-> "", registration |-> None ]

\* The role column of a users row.
UserRole(id) == IF id = 1 THEN "hospital_manager" ELSE "super_admin"

\* The tables before the first request.
InitTables ==
    /\ registrations = { RegistrationRow(id) : id \in Registrations }
    /\ events = EventIds
    /\ certificates = {}
    /\ nextId = 1
    /\ activityLogs = <<>>
    /\ now = 1
    /\ issue = [ p \in Slots |-> NoIssue ]
    /\ revokeRes = NoRevokeResponse
    /\ verifyRes = NoVerifyResponse
    /\ served = 0
    /\ refused = 0
    /\ userPermissions = [ u \in Users |-> CertificatePermissions ]
    /\ tokens = {}
    /\ register = [ q \in Slots |-> NoRegister ]
    /\ nextRegistrationId = MaxReg + 1

Init ==
    /\ InitTables
    /\ gen = NoGen

\* The generator about to be called, for a clock reading and a draw.
InitGen ==
    /\ InitTables
    /\ gen \in [ date : [ fullYear : Years, month : Months ],
                  id : NanoidDraws,
                  certificateNumber : { None } ]

\* The clock advances between any two steps.
Tick ==
    /\ now < MaxTime
    /\ now' = now + 1
    /\ UNCHANGED <<certificates, nextId, activityLogs, issue, revokeRes,
                   verifyRes, served, registrations, events, gen, refused,
                   authVars, registerVars>>

\* ------------------------------------------------ middleware/auth.ts

\* What a verified token decodes to (req.user): a manager with one or the
\* other of the two permissions, or a super admin with none.
ReqUsers ==
    { u \in [ id : Users, role : Roles, permissions : SUBSET CertificatePermissions ] :
        IF u.role = "super_admin"
        THEN u.permissions = {}
        ELSE Cardinality(u.permissions) = 1 }

\* What a request carries: no Authorization header, a token that
\* jwt.verify rejects, or a token that decodes to a user.
Credentials ==
    { [ authorization |-> "none", user |-> None ],
      [ authorization |-> "invalid", user |-> None ] }
    \cup { [ authorization |-> "valid", user |-> Some(u) ] : u \in ReqUsers }

\* authenticateJWT: the status it answers, or 0 for next().
authenticateJWT(credentials) ==
    IF credentials.authorization = "none" THEN 401
    ELSE IF credentials.authorization = "invalid" THEN 403
    ELSE 0

\* checkPermission(permission): the status it answers, or 0 for next().
checkPermission(user, permission) ==
    IF user = None THEN 401
    ELSE IF Val(user).role = "super_admin" THEN 0
    ELSE IF permission \in Val(user).permissions THEN 0
    ELSE 403

\* authenticateJWT, checkPermission(permission) in front of a handler.
Middleware(credentials, permission) ==
    LET status == authenticateJWT(credentials) IN
    IF status # 0 THEN status ELSE checkPermission(credentials.user, permission)

\* The middleware answers; no handler runs.
Refuse(status) ==
    /\ served < MaxRequests
    /\ served' = served + 1
    /\ refused' = status
    /\ UNCHANGED <<certificates, nextId, activityLogs, now, issue, revokeRes,
                   verifyRes, registrations, events, gen,
                   authVars, registerVars>>

\* ------------------------------------------------- POST /auth/login

\* The Authorization header that carries a token login signed.
Bearer(user) == [ authorization |-> "valid", user |-> Some(user) ]

\* The whole handler for a user who gives the right password: the token
\* is signed over the id, the role and the names storage.getUserPermissions
\* returns at this moment, and the login is logged.
Login(id) ==
    /\ served < MaxRequests
    /\ served' = served + 1
    /\ tokens' = tokens \cup
          { [ id |-> id, role |-> UserRole(id), permissions |-> userPermissions[id] ] }
    /\ activityLogs' = Append(activityLogs,
           [ userId |-> id, action |-> "login",
             details |-> [ email |-> <<"email", id>> ],
             resourceType |-> "user", resourceId |-> id ])
    /\ UNCHANGED <<certificates, nextId, now, issue, revokeRes, verifyRes,
                   registrations, events, gen, refused, userPermissions,
                   registerVars>>

\* ------------------------------------------ PUT /users/:id/permissions

\* The whole handler, for a caller with role:manage:
\* storage.updateUserPermissions deletes the user's rows and inserts the
\* new ones, and the update is logged.
UpdateUserPermissions(id, permissions, user) ==
    /\ served < MaxRequests
    /\ served' = served + 1
    /\ userPermissions' = [ userPermissions EXCEPT ![id] = permissions ]
    /\ activityLogs' = Append(activityLogs,
           [ userId |-> user, action |-> "update",
             details |-> [ permissionIds |-> permissions ],
             resourceType |-> "user_permissions", resourceId |-> id ])
    /\ UNCHANGED <<certificates, nextId, now, issue, revokeRes, verifyRes,
                   registrations, events, gen, refused, tokens, registerVars>>

\* ------------------------------- POST /registrations/:id/certificate

\* The handler up to its first database call: the certificate number is
\* built from the clock and the registration id, and the QR code is
\* rendered from the verification URL of that number.  A finished slot is
\* taken over by the next request.
IssueStart(p, user, registrationId) ==
    /\ issue[p].pc \in {"idle", "done"}
    /\ served < MaxRequests
    /\ served' = served + 1
    /\ LET certificateNumber == CertificateNumber(now, registrationId)
           verificationUrl   == VerificationUrl(certificateNumber)
       IN  issue' = [ q \in Slots |->
                IF q = p
                THEN [ NoIssue EXCEPT
                         !.pc = "find",
                         !.user = user,
                         !.registrationId = registrationId,
                         !.certificateNumber = Some(certificateNumber),
                         !.qrCode = Some(generateCertificate(verificationUrl)),
                         !.prior = { r \in Slots \ {p} : issue[r].pc = "done" } ]
                ELSE [ issue[q] EXCEPT !.prior = @ \ {p} ] ]
    /\ UNCHANGED <<certificates, nextId, activityLogs, now, revokeRes, verifyRes, registrations, events, gen, refused,
                   authVars, registerVars>>

\* storage.generateCertificate, first statement: look for a certificate of
\* the registration.
IssueFind(p) ==
    /\ issue[p].pc = "find"
    /\ \E existingCertificate \in FindFirst(RowsByRegistration(issue[p].registrationId)) :
          issue' = [ issue EXCEPT ![p].existing = existingCertificate,
                                  ![p].pc = "write" ]
    /\ UNCHANGED <<certificates, nextId, activityLogs, now, revokeRes, verifyRes, served, registrations, events, gen, refused,
                   authVars, registerVars>>

\* A reissue that clears the flag and leaves the reason behind.
ReissuedRow_KeepReason(c, qrCode, t) ==
    [ c EXCEPT !.isRevoked = FALSE,
               !.revokedDate = None,
               !.revokedById = None,
               !.qrCode = qrCode,
               !.issuedDate = t ]

\* A reissue that un-revokes and refreshes the QR code but leaves
\* issuedDate alone.
ReissuedRow_KeepDate(c, qrCode, t) ==
    [ c EXCEPT !.isRevoked = FALSE,
               !.revokedReason = None,
               !.revokedDate = None,
               !.revokedById = None,
               !.qrCode = qrCode ]

\* The row written by the reissue branch (update ... where id = existing.id).
ReissuedRow(c, qrCode, t) ==
    [ c EXCEPT !.isRevoked = FALSE,
               !.revokedReason = None,
               !.revokedDate = None,
               !.revokedById = None,
               !.qrCode = qrCode,
               !.issuedDate = t ]

\* An insert whose row starts out revoked.
InsertedRow_Revoked(id, registrationId, certificateNumber, qrCode, t) ==
    [ id |-> id,
      registrationId |-> registrationId,
      certificateNumber |-> certificateNumber,
      qrCode |-> qrCode,
      issuedDate |-> t,
      isRevoked |-> TRUE,
      revokedReason |-> None,
      revokedDate |-> None,
      revokedById |-> None ]

\* The row written by the insert branch; the other columns take their
\* defaults.
InsertedRow(id, registrationId, certificateNumber, qrCode, t) ==
    [ id |-> id,
      registrationId |-> registrationId,
      certificateNumber |-> certificateNumber,
      qrCode |-> qrCode,
      issuedDate |-> t,
      isRevoked |-> FALSE,
      revokedReason |-> None,
      revokedDate |-> None,
      revokedById |-> None ]

\* A table without the unique constraint on certificate_number.
InsertAllowed_NoUnique(row) ==
    RegistrationsById(row.registrationId) # {}

\* The constraints of the certificates table an insert must meet: the
\* foreign key to event_registrations and the unique certificate_number.
InsertAllowed(row) ==
    /\ RegistrationsById(row.registrationId) # {}
    /\ RowsByNumber(row.certificateNumber) = {}

\* storage.logActivity: one row appended to activity_logs.
LogEntry(userId, action, details, resourceId) ==
    [ userId |-> userId, action |-> action, details |-> details,
      resourceType |-> "certificate", resourceId |-> resourceId ]

\* A handler that answers with the number it built instead of the one on
\* the row it got back.
IssueDone_BuiltNumber(p, certificate) ==
    /\ activityLogs' = Append(activityLogs,
           [ userId |-> issue[p].user, action |-> "generate_certificate",
             details |-> [ certificateNumber |-> Val(issue[p].certificateNumber) ],
             resourceType |-> "certificate", resourceId |-> certificate.id ])
    /\ issue' = [ issue EXCEPT
                    ![p].certificate =
                        Some([ certificate EXCEPT
                                 !.certificateNumber = Val(issue[p].certificateNumber) ]),
                    ![p].status = 201,
                    ![p].pc = "done" ]

\* The handler after storage.generateCertificate returned `certificate`:
\* the generate_certificate log entry, whose details carry the number the
\* handler built, then 201 with the row.
IssueDone(p, certificate) ==
    /\ activityLogs' = Append(activityLogs,
           LogEntry(issue[p].user, "generate_certificate",
                    [ certificateNumber |-> Val(issue[p].certificateNumber) ],
                    certificate.id))
    /\ issue' = [ issue EXCEPT ![p].certificate = Some(certificate),
                               ![p].status = 201,
                               ![p].pc = "done" ]

\* The handler's catch block: 500, nothing else.
IssueFailed(p) ==
    /\ issue' = [ issue EXCEPT ![p].status = 500, ![p].pc = "done" ]
    /\ UNCHANGED activityLogs

\* A branch that refreshes the issue date of the active row it found.
ExistingLedger_Refresh(existing) ==
    { IF c.id = existing.id THEN [ c EXCEPT !.issuedDate = now ] ELSE c :
        c \in certificates }

\* What storage.generateCertificate does to the certificates table when
\* the row it found is not revoked: nothing, the row is returned as found.
ExistingLedger(existing) == certificates

\* storage.generateCertificate, second statement (reissue, return the
\* existing row, or insert) and the rest of the handler.  The log entry
\* that follows the statement reads nothing back, so the two are taken
\* together.
IssueWrite(p) ==
    /\ issue[p].pc = "write"
    /\ LET h == issue[p] IN
       IF h.existing # None
       THEN IF Val(h.existing).isRevoked
            THEN \* update ... where id = existing.id returning: without a
                 \* row, certificate.id throws into the catch block
                 LET rows == RowsById(Val(h.existing).id) IN
                 IF rows = {}
                 THEN /\ IssueFailed(p)
                      /\ UNCHANGED <<certificates, nextId>>
                 ELSE \E c \in rows :
                      LET updatedCertificate == ReissuedRow(c, Val(h.qrCode), now) IN
                      /\ certificates' = (certificates \ {c}) \cup {updatedCertificate}
                      /\ IssueDone(p, updatedCertificate)
                      /\ UNCHANGED nextId
            ELSE /\ certificates' = ExistingLedger(Val(h.existing))
                 /\ IssueDone(p, Val(h.existing))
                 /\ UNCHANGED nextId
       ELSE LET certificate == InsertedRow(nextId, h.registrationId,
                                  Val(h.certificateNumber), Val(h.qrCode), now) IN
            IF InsertAllowed(certificate)
            THEN /\ certificates' = certificates \cup {certificate}
                 /\ nextId' = nextId + 1
                 /\ IssueDone(p, certificate)
            ELSE /\ IssueFailed(p)
                 /\ UNCHANGED <<certificates, nextId>>
    /\ UNCHANGED <<now, revokeRes, verifyRes, served, registrations, events, gen, refused,
                   authVars, registerVars>>

\* ---------------------------------------- POST /certificates/:id/revoke

\* The row written by storage.revokeCertificate.
RevokedRow(c, revokedById, reason, t) ==
    [ c EXCEPT !.isRevoked = TRUE,
               !.revokedReason = Some(reason),
               !.revokedDate = Some(t),
               !.revokedById = Some(revokedById) ]

RevokeResponse(status, certificate) ==
    [ status |-> status, certificate |-> certificate ]

\* The whole handler.  Its one ledger statement is the update; the log
\* entry that follows reads nothing back, so the two are taken together.
\* An id that matches no row leaves revokedCertificate undefined, and
\* reading its certificateNumber for the log throws into the catch block.
Revoke(id, user, reason) ==
    /\ served < MaxRequests
    /\ served' = served + 1
    /\ IF ReasonMissing(reason)
       THEN /\ revokeRes' = RevokeResponse(400, None)
            /\ UNCHANGED <<certificates, activityLogs>>
       ELSE LET rows == RowsById(id) IN
            IF rows = {}
            THEN /\ revokeRes' = RevokeResponse(500, None)
                 /\ UNCHANGED <<certificates, activityLogs>>
            ELSE \E c \in rows :
                 LET revokedCertificate == RevokedRow(c, user, reason, now) IN
                 /\ certificates' = (certificates \ {c}) \cup {revokedCertificate}
                 /\ activityLogs' = Append(activityLogs,
                        LogEntry(user, "revoke_certificate",
                                 [ certificateNumber |-> revokedCertificate.certificateNumber,
                                   reason |-> reason ],
                                 id))
                 /\ revokeRes' = RevokeResponse(200, Some(revokedCertificate))
    /\ UNCHANGED <<nextId, now, issue, verifyRes, registrations, events, gen, refused,
                   authVars, registerVars>>

\* ------------------------------------ GET /certificates/verify/:number

\* The columns of a users row that the lookup selects, and an events
\* row; every text value is told apart by its column and its row.  Every
\* event has room for one registration and approves registrations itself.
UserColumns(id) ==
    [ id |-> id,
      fullName |-> <<"fullName", id>>,
      email |-> <<"email", id>>,
      organization |-> <<"organization", id>>,
      position |-> <<"position", id>> ]
EventRow(id) ==
    [ id |-> id,
      title |-> <<"title", id>>,
      location |-> <<"location", id>>,
      startDate |-> <<"startDate", id>>,
      endDate |-> <<"endDate", id>>,
      capacity |-> 1,
      autoApproveRegistrations |-> TRUE ]

\* with: { registration: { with: { event: true, user: { columns } } } }
WithRegistration(c) ==
    LET r == CHOOSE r \in registrations : r.id = c.registrationId IN
    [ id |-> c.id,
      registrationId |-> c.registrationId,
      certificateNumber |-> c.certificateNumber,
      qrCode |-> c.qrCode,
      issuedDate |-> c.issuedDate,
      isRevoked |-> c.isRevoked,
      revokedReason |-> c.revokedReason,
      revokedDate |-> c.revokedDate,
      revokedById |-> c.revokedById,
      registration |->
          [ id |-> r.id, eventId |-> r.eventId, userId |-> r.userId,
            status |-> r.status,
            attendanceConfirmed |-> r.attendanceConfirmed,
            event |-> EventRow(r.eventId),
            user |-> UserColumns(r.userId) ] ]

\* storage.getCertificateByNumber: the row with that number, joined with
\* its registration, the event and the user, or undefined.
getCertificateByNumber(certificateNumber) ==
    FindFirst({ WithRegistration(c) : c \in RowsByNumber(certificateNumber) })

\* The certificate object of the answer for a valid certificate.
CertificateJson(certificate) ==
    [ certificateNumber |-> certificate.certificateNumber,
      issuedDate |-> certificate.issuedDate,
      event |-> [ title |-> certificate.registration.event.title,
                  startDate |-> certificate.registration.event.startDate,
                  endDate |-> certificate.registration.event.endDate ],
      user |-> [ fullName |-> certificate.registration.user.fullName,
                 organization |-> certificate.registration.user.organization,
                 position |-> certificate.registration.user.position ] ]

\* A handler without the isRevoked branch: every row found is valid.
VerifyResponse_RevokedValid(found) ==
    IF found = None
    THEN [ status |-> 404, valid |-> FALSE, revoked |-> FALSE,
           revokedReason |-> None, revokedDate |-> None, certificate |-> None ]
    ELSE [ status |-> 200, valid |-> TRUE, revoked |-> FALSE,
           revokedReason |-> None, revokedDate |-> None,
           certificate |-> Some(CertificateJson(Val(found))) ]

\* A handler that hands out the user object as the lookup selected it.
VerifyResponse_WholeUser(found) ==
    IF found = None
    THEN [ status |-> 404, valid |-> FALSE, revoked |-> FALSE,
           revokedReason |-> None, revokedDate |-> None, certificate |-> None ]
    ELSE IF Val(found).isRevoked
    THEN [ status |-> 200, valid |-> FALSE, revoked |-> TRUE,
           revokedReason |-> Val(found).revokedReason,
           revokedDate |-> Val(found).revokedDate, certificate |-> None ]
    ELSE [ status |-> 200, valid |-> TRUE, revoked |-> FALSE,
           revokedReason |-> None, revokedDate |-> None,
           certificate |-> Some([ CertificateJson(Val(found)) EXCEPT
                                    !.user = Val(found).registration.user ]) ]

\* The JSON the handler answers with, by what the lookup returned.
VerifyResponse(found) ==
    IF found = None
    THEN [ status |-> 404, valid |-> FALSE, revoked |-> FALSE,
           revokedReason |-> None, revokedDate |-> None, certificate |-> None ]
    ELSE IF Val(found).isRevoked
    THEN [ status |-> 200, valid |-> FALSE, revoked |-> TRUE,
           revokedReason |-> Val(found).revokedReason,
           revokedDate |-> Val(found).revokedDate, certificate |-> None ]
    ELSE [ status |-> 200, valid |-> TRUE, revoked |-> FALSE,
           revokedReason |-> None, revokedDate |-> None,
           certificate |-> Some(CertificateJson(Val(found))) ]

\* A handler that stamps the row it found (a touched issuedDate).
VerifyLedger_Touch(found) ==
    IF found = None
    THEN certificates
    ELSE { IF c.id = Val(found).id THEN [ c EXCEPT !.issuedDate = now ] ELSE c :
             c \in certificates }

\* What the handler does to the certificates table: nothing.
VerifyLedger(found) == certificates

\* The whole handler: one lookup, and for a valid certificate a
\* verify_certificate log entry before the answer.
Verify(certificateNumber) ==
    /\ served < MaxRequests
    /\ served' = served + 1
    /\ \E found \in getCertificateByNumber(certificateNumber) :
          /\ verifyRes' = VerifyResponse(found)
          /\ certificates' = VerifyLedger(found)
          /\ activityLogs' =
                IF found # None /\ ~Val(found).isRevoked
                THEN Append(activityLogs,
                        LogEntry(Val(found).registration.userId,
                                 "verify_certificate",
                                 [ certificateNumber |-> certificateNumber ],
                                 Val(found).id))
                ELSE activityLogs
    /\ UNCHANGED <<nextId, now, issue, revokeRes, registrations, events, gen, refused,
                   authVars, registerVars>>

\* The answer of the handler's catch block.
VerifyError ==
    [ status |-> 500, valid |-> FALSE, revoked |-> FALSE,
      revokedReason |-> None, revokedDate |-> None, certificate |-> None ]

\* The whole handler when storage.logActivity rejects: the lookup found
\* an active certificate, the awaited insert into activity_logs throws
\* inside the try block, and the catch block answers.
VerifyLogFails(certificateNumber) ==
    /\ served < MaxRequests
    /\ served' = served + 1
    /\ \E found \in getCertificateByNumber(certificateNumber) :
          /\ found # None
          /\ ~Val(found).isRevoked
          /\ verifyRes' = VerifyError
    /\ UNCHANGED <<certificates, activityLogs, nextId, now, issue, revokeRes,
                   registrations, events, gen, refused,
                   authVars, registerVars>>

\* ------------------------------ PUT /registrations/:id/confirm-attendance

\* storage.logActivity for a resource of any type.
ActivityLog(userId, action, details, resourceType, resourceId) ==
    [ userId |-> userId, action |-> action, details |-> details,
      resourceType |-> resourceType, resourceId |-> resourceId ]

\* The whole handler: storage.confirmAttendance sets the flag on the row
\* with that id, if there is one, and the update is logged either way.
ConfirmAttendance(id, user) ==
    /\ served < MaxRequests
    /\ served' = served + 1
    /\ registrations' =
          { IF r.id = id THEN [ r EXCEPT !.attendanceConfirmed = TRUE ] ELSE r :
              r \in registrations }
    /\ activityLogs' = Append(activityLogs,
           ActivityLog(user, "update", [ attendanceConfirmed |-> TRUE ],
                       "event_registration", id))
    /\ UNCHANGED <<certificates, nextId, now, issue, revokeRes, verifyRes, events, gen, refused,
                   authVars, registerVars>>

\* ------------------------------------------------- DELETE /events/:id

\* The rows left in event_registrations and certificates when the event
\* row goes: both foreign keys are declared onDelete cascade.
RegistrationsAfterDelete(eventId) ==
    { r \in registrations : r.eventId # eventId }
CertificatesAfterDelete(eventId) ==
    { c \in certificates :
        \A r \in registrations : r.id = c.registrationId => r.eventId # eventId }

\* The whole handler, for a caller allowed to delete the event: 404 for an
\* event that does not exist, else storage.deleteEvent and the log entry.
DeleteEvent(eventId, user) ==
    /\ served < MaxRequests
    /\ served' = served + 1
    /\ IF eventId \notin events
       THEN UNCHANGED <<events, registrations, certificates, activityLogs>>
       ELSE /\ events' = events \ {eventId}
            /\ registrations' = RegistrationsAfterDelete(eventId)
            /\ certificates' = CertificatesAfterDelete(eventId)
            /\ activityLogs' = Append(activityLogs,
                   ActivityLog(user, "delete", [ title |-> eventId ], "event", eventId))
    /\ UNCHANGED <<nextId, now, issue, revokeRes, verifyRes, gen, refused,
                   authVars, registerVars>>

\* ------------------------------------------ POST /events/:id/register

\* The users who register and the ids asked for in the path.
Attendees   == 1..(MaxUser + 1)
EventParams == 1..(MaxEvent + 1)

\* The handler's catch block: 500 with the error's message.
RegisterFailed(q, message) ==
    register' = [ register EXCEPT ![q].status = 500,
                                   ![q].message = message,
                                   ![q].pc = "done" ]

\* The handler up to the end of storage.getEventById, the first statement
\* of storage.registerForEvent.  A finished slot is taken over by the next
\* request.
RegisterStart(q, userId, eventId) ==
    /\ register[q].pc \in {"idle", "done"}
    /\ served < MaxRequests
    /\ served' = served + 1
    /\ LET h == [ NoRegister EXCEPT !.userId = userId, !.eventId = eventId ] IN
       IF eventId \in events
       THEN register' = [ register EXCEPT
                            ![q] = [ h EXCEPT !.event = Some(EventRow(eventId)),
                                             !.pc = "check" ] ]
       ELSE register' = [ register EXCEPT
                            ![q] = [ h EXCEPT !.status = 500,
                                             !.message = "Event not found",
                                             !.pc = "done" ] ]
    /\ UNCHANGED <<certificates, nextId, activityLogs, now, issue, revokeRes,
                   verifyRes, registrations, events, gen, refused, authVars,
                   nextRegistrationId>>

\* where eventId = ... and userId = ...
RegistrationsOf(eventId, userId) ==
    { r \in registrations : r.eventId = eventId /\ r.userId = userId }

\* storage.registerForEvent, second statement: is the user registered for
\* the event already?
RegisterCheck(q) ==
    /\ register[q].pc = "check"
    /\ IF RegistrationsOf(register[q].eventId, register[q].userId) # {}
       THEN RegisterFailed(q, "User is already registered for this event")
       ELSE register' = [ register EXCEPT ![q].pc = "count" ]
    /\ UNCHANGED <<certificates, nextId, activityLogs, now, issue, revokeRes,
                   verifyRes, served, registrations, events, gen, refused,
                   authVars, nextRegistrationId>>

\* select count(*) ... where eventId = ... and status = 'approved'
ApprovedCount(eventId) ==
    Cardinality({ r \in registrations : r.eventId = eventId /\ r.status = "approved" })

\* event.capacity && count >= event.capacity
AtCapacity(event) ==
    /\ event.capacity # 0
    /\ ApprovedCount(event.id) >= event.capacity

\* storage.registerForEvent, third statement: the capacity check.
RegisterCount(q) ==
    /\ register[q].pc = "count"
    /\ IF AtCapacity(Val(register[q].event))
       THEN RegisterFailed(q, "Event has reached maximum capacity")
       ELSE register' = [ register EXCEPT ![q].pc = "insert" ]
    /\ UNCHANGED <<certificates, nextId, activityLogs, now, issue, revokeRes,
                   verifyRes, served, registrations, events, gen, refused,
                   authVars, nextRegistrationId>>

\* The row registerForEvent inserts.
RegisteredRow(id, eventId, userId, event) ==
    [ id |-> id,
      eventId |-> eventId,
      userId |-> userId,
      status |-> IF event.autoApproveRegistrations THEN "approved" ELSE "pending",
      attendanceConfirmed |-> FALSE ]

\* storage.registerForEvent, last statement, and the rest of the handler:
\* the insert, which the foreign key to events can refuse, the log entry
\* and 201 with the row.
RegisterInsert(q) ==
    /\ register[q].pc = "insert"
    /\ LET h == register[q]
           registration == RegisteredRow(nextRegistrationId, h.eventId, h.userId,
                                         Val(h.event))
       IN  IF h.eventId \in events
           THEN /\ registrations' = registrations \cup {registration}
                /\ nextRegistrationId' = nextRegistrationId + 1
                /\ activityLogs' = Append(activityLogs,
                       [ userId |-> h.userId, action |-> "create",
                         details |-> [ eventId |-> h.eventId,
                                       status |-> registration.status ],
                         resourceType |-> "event_registration",
                         resourceId |-> registration.id ])
                /\ register' = [ register EXCEPT ![q].registration = Some(registration),
                                                ![q].status = 201,
                                                ![q].pc = "done" ]
           ELSE /\ RegisterFailed(q, "violates foreign key constraint")
                /\ UNCHANGED <<registrations, nextRegistrationId, activityLogs>>
    /\ UNCHANGED <<certificates, nextId, now, issue, revokeRes, verifyRes,
                   served, events, gen, refused, authVars>>

\* ------------------------------------------ PUT /registrations/:id/status

\* The statuses a request body can ask for.
StatusParams == { "approved", "rejected", "pending" }

\* The whole handler, for a caller with event:approve: 400 for a status
\* that is neither approved nor rejected, else
\* storage.updateRegistrationStatus on the row with that id, if there is
\* one, and the log entry.
UpdateRegistrationStatus(id, status, user) ==
    /\ served < MaxRequests
    /\ served' = served + 1
    /\ IF status \notin { "approved", "rejected" }
       THEN UNCHANGED <<registrations, activityLogs>>
       ELSE /\ registrations' =
                  { IF r.id = id THEN [ r EXCEPT !.status = status ] ELSE r :
                      r \in registrations }
            /\ activityLogs' = Append(activityLogs,
                   [ userId |-> user, action |-> "update",
                     details |-> [ status |-> status ],
                     resourceType |-> "event_registration", resourceId |-> id ])
    /\ UNCHANGED <<certificates, nextId, now, issue, revokeRes, verifyRes,
                   events, gen, refused, authVars, registerVars>>

\* ------------------------------------------------------- the routes

\* POST /registrations/:id/certificate behind its middleware; the handler
\* reads the id from the path.
IssueRequest(credentials) ==
    LET status == Middleware(credentials, "certificate:generate") IN
    IF status = 0
    THEN \E p \in Slots, registrationId \in RegIds :
            IssueStart(p, Val(credentials.user).id, registrationId)
    ELSE Refuse(status)

\* POST /certificates/:id/revoke behind its middleware; the handler reads
\* the id from the path and the reason from the body.
RevokeRequest(credentials) ==
    LET status == Middleware(credentials, "certificate:revoke") IN
    IF status = 0
    THEN \E id \in 1..nextId, reason \in Reasons :
            Revoke(id, Val(credentials.user).id, reason)
    ELSE Refuse(status)

\* ------------------------------------------------------- specification

\* Certificate numbers a caller can ask about: every number the issue
\* endpoint can build, stored or not.
Numbers == { CertificateNumber(t, r) : t \in 1..MaxTime, r \in RegIds }

Next ==
    \/ Tick
    \/ \E credentials \in Credentials : IssueRequest(credentials)
    \/ \E p \in Slots : IssueFind(p)
    \/ \E p \in Slots : IssueWrite(p)
    \/ \E credentials \in Credentials : RevokeRequest(credentials)
    \/ \E certificateNumber \in Numbers : Verify(certificateNumber)
    \/ \E id \in RegIds, user \in Users : ConfirmAttendance(id, user)

\* The certificate routes and the attendance route.
Spec == Init /\ [][Next]_vars

\* The same with the event route that deletes.
NextEvents ==
    \/ Next
    \/ \E eventId \in EventIds, user \in Users : DeleteEvent(eventId, user)

SpecEvents == Init /\ [][NextEvents]_vars

\* The same as Spec with an activity_logs table that can reject the
\* verify handler's insert.
NextFaults ==
    \/ Next
    \/ \E certificateNumber \in Numbers : VerifyLogFails(certificateNumber)

SpecFaults == Init /\ [][NextFaults]_vars

\* The certificate routes called with the tokens login has signed, while
\* permissions are granted and taken away.
NextAuth ==
    \/ Tick
    \/ \E id \in Users : Login(id)
    \/ \E id \in Users, permissions \in SUBSET CertificatePermissions, user \in Users :
          UpdateUserPermissions(id, permissions, user)
    \/ \E user \in tokens : IssueRequest(Bearer(user))
    \/ \E p \in Slots : IssueFind(p)
    \/ \E p \in Slots : IssueWrite(p)
    \/ \E user \in tokens : RevokeRequest(Bearer(user))

SpecAuth == Init /\ [][NextAuth]_vars

\* The registration routes, from an event_registrations table without
\* rows.
InitRegister ==
    /\ registrations = {}
    /\ nextRegistrationId = 1
    /\ register = [ q \in Slots |-> NoRegister ]
    /\ events = EventIds
    /\ certificates = {}
    /\ nextId = 1
    /\ activityLogs = <<>>
    /\ now = 1
    /\ issue = [ p \in Slots |-> NoIssue ]
    /\ revokeRes = NoRevokeResponse
    /\ verifyRes = NoVerifyResponse
    /\ served = 0
    /\ refused = 0
    /\ userPermissions = [ u \in Users |-> CertificatePermissions ]
    /\ tokens = {}
    /\ gen = NoGen

NextRegister ==
    \/ \E q \in Slots, userId \in Attendees, eventId \in EventParams :
          RegisterStart(q, userId, eventId)
    \/ \E q \in Slots : RegisterCheck(q)
    \/ \E q \in Slots : RegisterCount(q)
    \/ \E q \in Slots : RegisterInsert(q)
    \/ \E id \in 1..nextRegistrationId, status \in StatusParams, user \in Users :
          UpdateRegistrationStatus(id, status, user)
    \/ \E eventId \in EventIds, user \in Users : DeleteEvent(eventId, user)

SpecRegister == InitRegister /\ [][NextRegister]_vars

\* The identifier generator on its own.
NextGen == Generate

SpecGen == InitGen /\ [][NextGen]_vars

\* ---------------------------------------------------------------- C1

\* C1: in every reachable state the ledger holds at most one certificate
\* row per registrationId, also under concurrent issue requests.
C1_OneRowPerRegistration ==
    \A c \in certificates, d \in certificates :
        c.registrationId = d.registrationId => c.id = d.id

\* ---------------------------------------------------------------- C2

\* A revoke request on certificate `id` that answered 200 in this step.
RevokeSucceeds(id) ==
    \E user \in Users, reason \in Reasons :
        Revoke(id, user, reason) /\ revokeRes'.status = 200

\* An issue handler's write for registration `registrationId` in this step.
IssueWrites(registrationId) ==
    \E p \in Slots :
        issue[p].registrationId = registrationId /\ IssueWrite(p)

C3_RevocationFieldsTogether ==
    \A c \in certificates :
        /\ c.isRevoked =>
              c.revokedReason # None /\ c.revokedDate # None /\ c.revokedById # None
        /\ ~c.isRevoked =>
              c.revokedReason = None /\ c.revokedDate = None /\ c.revokedById = None

\* A row is revoked again after an issue request has reissued it.
C3_Witness ==
    \E c \in certificates, p \in Slots :
        /\ c.isRevoked
        /\ issue[p].pc = "done"
        /\ issue[p].status = 201
        /\ issue[p].existing # None
        /\ Val(issue[p].existing).isRevoked
        /\ Val(issue[p].certificate).id = c.id

\* ---------------------------------------------------------------- C4

\* C4: a revoke of a certificate that is already revoked is refused and
\* leaves the row, with the revocation columns the first revoke set, as
\* it was.
C4_SecondRevokeRefused ==
    [][ \A c \in certificates, user \in Users, reason \in Reasons :
          (c.isRevoked /\ Revoke(c.id, user, reason)) =>
              /\ revokeRes'.status \in 400..499
              /\ certificates' = certificates
      ]_vars

\* ---------------------------------------------------------------- C5

\* An issue request that has answered 201 from the branch that returns
\* the existing, active certificate.
ReturnedExisting(p) ==
    /\ issue[p].pc = "done"
    /\ issue[p].status = 201
    /\ issue[p].existing # None
    /\ ~Val(issue[p].existing).isRevoked

\* C5: two issue requests for the same registration, the second arriving
\* after the first has answered, both finding the certificate active,
\* return the same certificateNumber.
C5_IssueTwiceSameNumber ==
    \A p \in Slots, q \in Slots :
        ( /\ ReturnedExisting(p)
          /\ ReturnedExisting(q)
          /\ p \in issue[q].prior
          /\ issue[p].registrationId = issue[q].registrationId )
        => Val(issue[p].certificate).certificateNumber
             = Val(issue[q].certificate).certificateNumber

\* ---------------------------------------------------------------- C6

\* C6: while an issue request's 201 response stands and the certificate
\* it returned has not been revoked, a verify of the returned number
\* answers valid = true for that number.
C6_IssueThenVerify ==
    [][ \A p \in Slots :
          ( /\ issue[p].pc = "done"
            /\ issue[p].status = 201
            /\ \A c \in RowsByNumber(Val(issue[p].certificate).certificateNumber) :
                  ~c.isRevoked
            /\ Verify(Val(issue[p].certificate).certificateNumber) )
          => /\ verifyRes'.status = 200
             /\ verifyRes'.valid
             /\ Val(verifyRes'.certificate).certificateNumber
                  = Val(issue[p].certificate).certificateNumber
      ]_vars

\* A verify answered valid for the number an issue request returned.
C6_Witness ==
    \E p \in Slots :
        /\ issue[p].pc = "done"
        /\ issue[p].status = 201
        /\ verifyRes.valid
        /\ Val(verifyRes.certificate).certificateNumber
             = Val(issue[p].certificate).certificateNumber

\* ---------------------------------------------------------------- C7

\* C7: no step changes the certificateNumber of a row, and no two rows
\* of the table carry the same certificateNumber.
C7_NumberFixedAndUnique ==
    /\ [][ \A c \in certificates, d \in certificates' :
              d.id = c.id => d.certificateNumber = c.certificateNumber
         ]_vars
    /\ [](\A c \in certificates, d \in certificates :
              c.certificateNumber = d.certificateNumber => c.id = d.id)

\* Two rows exist, and one of them has been reissued by a request that had
\* built another number: its QR code encodes that number, its column
\* still holds the original.
C7_Witness ==
    \E c \in certificates, d \in certificates :
        /\ c.id # d.id
        /\ c.qrCode # generateCertificate(VerificationUrl(c.certificateNumber))

\* ---------------------------------------------------------------- C8

\* C8: the step in which an issue request reissues a revoked certificate
\* leaves the row under its number active, so that a verify of that
\* number answers valid = true, and sets the row's issuedDate to the time
\* of that step.
C8_ReissueValidAgain ==
    [][ \A p \in Slots :
          ( /\ issue[p].existing # None
            /\ Val(issue[p].existing).isRevoked
            /\ IssueWrite(p)
            /\ issue'[p].status = 201 )
          => LET n == Val(issue[p].existing).certificateNumber IN
             /\ Val(issue'[p].certificate).certificateNumber = n
             /\ \A found \in getCertificateByNumber(n)' :
                   /\ VerifyResponse(found).valid
                   /\ Val(VerifyResponse(found).certificate).issuedDate = now
                   /\ Val(found).issuedDate = now
      ]_vars

\* After a reissue, a verify answered valid for the reissued certificate
\* with the issue date of the reissue, which is not the original one.
C8_Witness ==
    \E p \in Slots :
        /\ issue[p].pc = "done"
        /\ issue[p].status = 201
        /\ issue[p].existing # None
        /\ Val(issue[p].existing).isRevoked
        /\ verifyRes.valid
        /\ Val(verifyRes.certificate).certificateNumber
             = Val(issue[p].certificate).certificateNumber
        /\ Val(verifyRes.certificate).issuedDate = Val(issue[p].certificate).issuedDate
        /\ Val(verifyRes.certificate).issuedDate # Val(issue[p].existing).issuedDate

\* ---------------------------------------------------------------- C9

\* Empty or made of spaces only.
IsBlank(reason) == \A i \in 1..Len(reason) : reason[i] = " "

\* C9: a revoke of an existing certificate with an empty or
\* whitespace-only reason is refused with 400 and leaves the table as it
\* was.
C9_BlankReasonRefused ==
    [][ \A c \in certificates, user \in Users, reason \in Reasons :
          (IsBlank(reason) /\ Revoke(c.id, user, reason)) =>
              /\ revokeRes'.status = 400
              /\ certificates' = certificates
      ]_vars

\* --------------------------------------------------------------- C10

\* C10: a verify step, whatever its lookup finds, leaves the certificates
\* table as it was.
C10_VerifyReadOnly ==
    [][ \A certificateNumber \in Numbers :
          Verify(certificateNumber) => certificates' = certificates
      ]_vars

\* Verifies have been answered while the table held an active and a
\* revoked row: the last one found its row and answered it revoked.
C10_Witness ==
    /\ verifyRes.status = 200
    /\ verifyRes.revoked
    /\ \E c \in certificates : ~c.isRevoked

\* --------------------------------------------------------------- C11

\* The registration exists and its attendance has not been confirmed.
NotEligible(registrationId) ==
    \E r \in RegistrationsById(registrationId) : ~r.attendanceConfirmed

\* C11: an issue request for a registration whose attendance is not
\* confirmed is answered with a 4xx error, and its ledger statement leaves
\* the certificates table as it was.
C11_NotEligibleRefused ==
    [][ \A p \in Slots :
          (IssueWrite(p) /\ NotEligible(issue[p].registrationId)) =>
              /\ issue'[p].status \in 400..499
              /\ certificates' = certificates
      ]_vars

\* --------------------------------------------------------------- C12

\* C12: in every reachable state the qrCode of every certificate row is
\* the rendering of the verification URL of that row's own
\* certificateNumber.
C12_QrCodeOfOwnNumber ==
    \A c \in certificates :
        c.qrCode = generateCertificate(VerificationUrl(c.certificateNumber))

\* --------------------------------------------------------------- C13

\* C13: in every reachable state the certificateNumber of every row is
\* accepted by validateCertificateNumber.
C13_StoredNumberWellFormed ==
    \A c \in certificates :
        validateCertificateNumber(CertificateNumberString(c.certificateNumber))

\* --------------------------------------------------------------- C14

\* C14: whatever year and month the clock reads and whatever string
\* nanoid draws, the number generateCertificateNumber returns is accepted
\* by validateCertificateNumber.
C14_GeneratedNumberValid ==
    gen.certificateNumber # None =>
        validateCertificateNumber(Val(gen.certificateNumber))

\* The generator has returned for a two-digit year followed by a
\* one-digit month and a draw that holds a letter.
C14_Witness ==
    /\ gen.certificateNumber # None
    /\ gen.date.fullYear = 2009
    /\ gen.date.month + 1 < 10
    /\ \E i \in 1..Len(gen.id) : gen.id[i] \in Upper
    /\ Len(Val(gen.certificateNumber)) = Len(Medevent) + RegexDigits + 1 + NanoidSize

\* --------------------------------------------------------------- C15

\* C15: a verify request for a string validateCertificateNumber rejects
\* is answered not found, whatever the certificates table holds.
C15_MalformedNotFound ==
    [][ \A certificateNumber \in Numbers :
          ( /\ ~validateCertificateNumber(CertificateNumberString(certificateNumber))
            /\ Verify(certificateNumber) ) =>
              /\ verifyRes'.status = 404
              /\ ~verifyRes'.valid
      ]_vars

\* --------------------------------------------------------------- C16

\* The request carries a verified token whose permissions list the
\* permission.
Holds(credentials, permission) ==
    /\ credentials.authorization = "valid"
    /\ permission \in Val(credentials.user).permissions

\* C16: an issue request from a caller who does not hold
\* certificate:generate starts no issuance and leaves the certificates
\* table as it was, and a revoke request from a caller who does not hold
\* certificate:revoke leaves the certificates table as it was.
C16_MutationNeedsPermission ==
    [][ \A credentials \in Credentials :
          /\ (IssueRequest(credentials) /\ ~Holds(credentials, "certificate:generate")) =>
                 /\ issue' = issue
                 /\ certificates' = certificates
          /\ (RevokeRequest(credentials) /\ ~Holds(credentials, "certificate:revoke")) =>
                 certificates' = certificates
      ]_vars

\* --------------------------------------------------------------- C17

\* C17: no step removes a certificate row: every row of the certificates
\* table is still in the table, under its id, after the step.
C17_RowsNeverRemoved ==
    [][ \A c \in certificates : \E d \in certificates' : d.id = c.id ]_vars

\* --------------------------------------------------------------- C18

\* C18: the answer for a valid certificate carries the certificate number,
\* the issue date, the event's title and dates and the holder's name,
\* organization and position, nothing else, and none of its holder fields
\* is a user's email.
C18_VerifyPublicFieldsOnly ==
    verifyRes.valid =>
        LET certificate == Val(verifyRes.certificate) IN
        /\ DOMAIN certificate = { "certificateNumber", "issuedDate", "event", "user" }
        /\ DOMAIN certificate.event = { "title", "startDate", "endDate" }
        /\ DOMAIN certificate.user = { "fullName", "organization", "position" }
        /\ \A f \in DOMAIN certificate.user, u \in Users :
              certificate.user[f] # UserColumns(u).email

\* A verify has answered valid with the holder's name, organization and
\* position and the event's title.
C18_Witness ==
    /\ verifyRes.status = 200
    /\ verifyRes.valid
    /\ \E r \in registrations :
          LET certificate == Val(verifyRes.certificate) IN
          /\ certificate.user.fullName = UserColumns(r.userId).fullName
          /\ certificate.user.organization = UserColumns(r.userId).organization
          /\ certificate.user.position = UserColumns(r.userId).position
          /\ certificate.event.title = EventRow(r.eventId).title

\* --------------------------------------------------------------- C19

\* Two issue requests that ran concurrently: both have answered, and
\* neither had answered when the other arrived.
Concurrent(p, q) ==
    /\ p # q
    /\ issue[p].pc = "done"
    /\ issue[q].pc = "done"
    /\ p \notin issue[q].prior
    /\ q \notin issue[p].prior

\* C19: issue requests for the same registration that ran concurrently
\* have all answered 201, with the same certificateNumber.
C19_ConcurrentIssueSameNumber ==
    \A p \in Slots, q \in Slots :
        ( /\ Concurrent(p, q)
          /\ issue[p].registrationId = issue[q].registrationId
          /\ RegistrationsById(issue[p].registrationId) # {} )
        => /\ issue[p].status = 201
           /\ issue[q].status = 201
           /\ Val(issue[p].certificate).certificateNumber
                = Val(issue[q].certificate).certificateNumber

\* --------------------------------------------------------------- C20

\* C20: the ledger step of an issue request whose lookup found an active
\* certificate leaves the certificates table as it was, every column of
\* every row and the number of rows, and answers with the row as found.
C20_ActiveRowUntouched ==
    [][ \A p \in Slots :
          ( /\ IssueWrite(p)
            /\ issue[p].existing # None
            /\ ~Val(issue[p].existing).isRevoked )
          => /\ certificates' = certificates
             /\ nextId' = nextId
             /\ issue'[p].certificate = issue[p].existing
      ]_vars

\* An issue request has answered with the active certificate it found,
\* at a later clock reading than the row's issue date, and the table still
\* holds that one row as it was found.
C20_Witness ==
    \E p \in Slots :
        /\ ReturnedExisting(p)
        /\ issue[p].certificate = issue[p].existing
        /\ certificates = { Val(issue[p].existing) }
        /\ Val(issue[p].existing).issuedDate < now

\* --------------------------------------------------------------- C21

\* C21: a row new to the certificates table is not revoked; the isRevoked
\* flag of a row goes from false to true only in a revoke request on the
\* row's id, and from true to false only in an issue handler's write for
\* the row's registration.
C21_FlagTransitions ==
    [][ /\ \A d \in certificates' :
              (\A c \in certificates : c.id # d.id) => ~d.isRevoked
        /\ \A c \in certificates, d \in certificates' :
              d.id = c.id =>
                  /\ (~c.isRevoked /\ d.isRevoked) =>
                        \E user \in Users, reason \in Reasons : Revoke(c.id, user, reason)
                  /\ (c.isRevoked /\ ~d.isRevoked) =>
                        \E p \in Slots :
                            /\ IssueWrite(p)
                            /\ issue[p].registrationId = c.registrationId
      ]_vars

\* A row was created, revoked by the last revoke request and made active
\* again by an issue request that had found it revoked.
C21_Witness ==
    \E c \in certificates, p \in Slots :
        /\ ~c.isRevoked
        /\ revokeRes.status = 200
        /\ Val(revokeRes.certificate).id = c.id
        /\ issue[p].pc = "done"
        /\ issue[p].existing # None
        /\ Val(issue[p].existing).id = c.id
        /\ Val(issue[p].existing).isRevoked
        /\ issue[p].registrationId = c.registrationId

\* --------------------------------------------------------------- C22

\* C22: a verify of an active certificate whose audit entry cannot be
\* recorded still answers 200 with valid = true.
C22_VerifyDespiteAuditFailure ==
    [][ \A certificateNumber \in Numbers :
          VerifyLogFails(certificateNumber) =>
              /\ verifyRes'.status = 200
              /\ verifyRes'.valid
      ]_vars

\* --------------------------------------------------------------- C23

\* C23: a revoke request with a reason, for an id that no certificate row
\* carries, is answered with a 4xx status and leaves the certificates
\* table as it was.
C23_RevokeUnknownIdNotFound ==
    [][ \A id \in 1..nextId, user \in Users, reason \in Reasons :
          ( /\ RowsById(id) = {}
            /\ ~ReasonMissing(reason)
            /\ Revoke(id, user, reason) ) =>
              /\ revokeRes'.status \in 400..499
              /\ certificates' = certificates
      ]_vars

\* --------------------------------------------------------------- C24

\* The insert of issue handler p would violate the unique constraint on
\* certificate_number: its lookup found no certificate, its registration
\* exists, and a row already carries the number it built.
NumberCollision(p) ==
    /\ issue[p].pc = "write"
    /\ issue[p].existing = None
    /\ RegistrationsById(issue[p].registrationId) # {}
    /\ RowsByNumber(Val(issue[p].certificateNumber)) # {}

\* C24: an issue handler whose insert hits the unique constraint for the
\* first time does not answer with a failure in that step: it goes on to
\* another attempt.
C24_CollisionRetried ==
    [][ \A p \in Slots :
          (NumberCollision(p) /\ IssueWrite(p)) =>
              ~(issue'[p].pc = "done" /\ issue'[p].status \in 500..599)
      ]_vars

\* --------------------------------------------------------------- C25

\* C25: every verify that answers valid = false, whether the number was
\* not found or the certificate is revoked, answers with status 200.
C25_InvalidLookupSameShape ==
    [][ \A certificateNumber \in Numbers :
          (Verify(certificateNumber) /\ ~verifyRes'.valid) =>
              verifyRes'.status = 200
      ]_vars

\* --------------------------------------------------------------- C26

\* C26: after a revoke request with a reason on an existing row, a verify
\* of the row's number answers with the reason and time of the revoke that
\* made the row revoked: this request's when the row was active, the
\* earlier one's when the row was revoked already.
C26_ReasonOfRevokingRequest ==
    [][ \A c \in certificates, user \in Users, reason \in Reasons :
          (~ReasonMissing(reason) /\ Revoke(c.id, user, reason)) =>
              \A found \in getCertificateByNumber(c.certificateNumber)' :
                  /\ found # None
                  /\ VerifyResponse(found).revoked
                  /\ VerifyResponse(found).revokedReason =
                        (IF c.isRevoked THEN c.revokedReason ELSE Some(reason))
                  /\ VerifyResponse(found).revokedDate =
                        (IF c.isRevoked THEN c.revokedDate ELSE Some(now))
      ]_vars

\* --------------------------------------------------------------- C27

\* C27: when an issue handler answers 201, the generate_certificate entry
\* it appended to the activity log carries the certificateNumber of the
\* row it answers with.
C27_LogCarriesRowNumber ==
    [][ \A p \in Slots :
          (IssueWrite(p) /\ issue'[p].status = 201) =>
              LET entry == activityLogs'[Len(activityLogs')] IN
              /\ entry.action = "generate_certificate"
              /\ entry.details.certificateNumber
                    = Val(issue'[p].certificate).certificateNumber
      ]_vars

\* --------------------------------------------------------------- C28

\* C28: a request that carries a token of a user who is not a super admin
\* and who, in the user_permissions table, does not hold certificate:revoke
\* (certificate:generate) leaves the certificates table as it was and, on
\* the issue route, starts no issuance.
C28_RemovedPermissionStops ==
    [][ \A user \in tokens :
          user.role # "super_admin" =>
              /\ ( /\ "certificate:revoke" \notin userPermissions[user.id]
                   /\ RevokeRequest(Bearer(user)) ) =>
                     certificates' = certificates
              /\ ( /\ "certificate:generate" \notin userPermissions[user.id]
                   /\ IssueRequest(Bearer(user)) ) =>
                     /\ issue' = issue
                     /\ certificates' = certificates
      ]_vars

\* --------------------------------------------------------------- C29

\* C29: in every reachable state no two rows of event_registrations are
\* for the same event and the same user.
C29_OneRegistrationPerUserAndEvent ==
    \A r1 \in registrations, r2 \in registrations :
        (r1.eventId = r2.eventId /\ r1.userId = r2.userId) => r1.id = r2.id

\* --------------------------------------------------------------- C30

\* C30: in every reachable state the approved registrations of an event
\* with a capacity are no more than the capacity.
C30_ApprovedWithinCapacity ==
    \A eventId \in events :
        EventRow(eventId).capacity # 0 =>
            ApprovedCount(eventId) <= EventRow(eventId).capacity

====
